---- MODULE Spec2Model ----
(***************************************************************************)
(* dfconfig: parser and editor of Dwarf Fortress "[KEY:VALUE]" config      *)
(* files (src/src/lib.rs).  A Config is a vector of classified lines; the  *)
(* model keeps that vector, and a record of the last call and its result.  *)
(* Strings are sequences of characters, each character a one-character     *)
(* string.                                                                 *)
(***************************************************************************)
EXTENDS Integers, Sequences, FiniteSets, TLC

VARIABLES
    lines,   \* Config.lines : Vec<Line>
    last     \* the last call made on the Config: its arguments and result

vars == <<lines, last>>

---------------------------------------------------------------------------
(* Bounds of the model.                                                    *)

\* an input text of read_str is the concatenation of at most MaxTokens tokens
MaxTokens == 3
\* an input text of the editing runs has at most MaxTextLines lines
MaxTextLines == 3
\* set appends a new line only while the Config has fewer than MaxLines lines
MaxLines == 3

---------------------------------------------------------------------------
(* Characters.                                                             *)

CR == "\r"
LF == "\n"
\* U+00B2 SUPERSCRIPT TWO: general category No, not Alphabetic
Sup2 == "²"

\* char::is_alphanumeric: Alphabetic, or Numeric (Nd, Nl, No)
is_alphanumeric(c) == c \in {"A", "B", "C", Sup2}

\* the regex class [\w\d]: Alphabetic, Mark, Nd, Connector_Punctuation, Join_Control
is_word(c) == c \in {"A", "B", "C", "_"}

\* char::is_whitespace (White_Space), as used by str::trim_end
is_whitespace(c) == c \in {" ", CR, LF}

\* Option<T>
None == <<>>
Some(x) == <<x>>

\* enum Line
Blank == [tag |-> "Blank"]
Comment(s) == [tag |-> "Comment", text |-> s]
Entry(k, v) == [tag |-> "Entry", key |-> k, value |-> v]
IsEntry(l) == l.tag = "Entry"

---------------------------------------------------------------------------
(* Helpers on strings.                                                     *)

\* key.chars().all(|x| x.is_alphanumeric())
all_alphanumeric(s) == \A i \in 1..Len(s) : is_alphanumeric(s[i])

\* str::trim_end: drop the trailing whitespace
RECURSIVE trim_end(_)
trim_end(s) ==
    IF s = <<>> THEN <<>>
    ELSE IF is_whitespace(s[Len(s)]) THEN trim_end(SubSeq(s, 1, Len(s) - 1))
    ELSE s

\* str::lines: split after every LF; a piece that ends with LF loses it and then
\* one CR before it; a last piece without LF is kept as it is; no piece follows
\* a final LF, and the empty text has no line.
RECURSIVE split_lines(_, _, _)
split_lines(s, i, cur) ==
    IF i > Len(s) THEN (IF cur = <<>> THEN <<>> ELSE <<cur>>)
    ELSE IF s[i] = LF
         THEN LET line == IF cur # <<>> /\ cur[Len(cur)] = CR
                          THEN SubSeq(cur, 1, Len(cur) - 1)
                          ELSE cur
              IN  <<line>> \o split_lines(s, i + 1, <<>>)
         ELSE split_lines(s, i + 1, Append(cur, s[i]))

str_lines(s) == split_lines(s, 1, <<>>)

\* [String]::join
RECURSIVE join(_, _)
join(buff, sep) ==
    IF buff = <<>> THEN <<>>
    ELSE IF Len(buff) = 1 THEN buff[1]
    ELSE buff[1] \o sep \o join(Tail(buff), sep)

---------------------------------------------------------------------------
(* Config::read_str and its classifier.                                    *)

\* a key class that would also take ':', as in ([\w\d:]+):
re_key_char_colon(c) == is_word(c) \/ c = ":"

\* the character classes of RE = ^\[([\w\d]+):([\w\d:]+)\]$
re_key_char(c) == is_word(c)
re_value_char(c) == is_word(c) \/ c = ":"

\* the positions of the ':' at which RE can split lt into its two groups
RE_splits(lt) ==
    { i \in 3..(Len(lt) - 2) :
        /\ lt[1] = "["
        /\ lt[Len(lt)] = "]"
        /\ lt[i] = ":"
        /\ (\A j \in 2..(i - 1) : re_key_char(lt[j]))
        /\ (\A j \in (i + 1)..(Len(lt) - 1) : re_value_char(lt[j])) }

\* RE.captures(lt): group 1 is greedy, so the match takes the longest key
RE_captures(lt) ==
    LET S == RE_splits(lt)
    IN  IF S = {} THEN None
        ELSE LET i == CHOOSE j \in S : \A k \in S : k <= j
             IN  Some(<<SubSeq(lt, 2, i - 1), SubSeq(lt, i + 1, Len(lt) - 1)>>)

\* the body of read_str's loop: one physical line to one Line
classify(l) ==
    LET lt == trim_end(l)
    IN  IF lt = <<>> THEN Blank
        ELSE LET captures == RE_captures(lt)
             IN  IF captures # None
                 THEN Entry(captures[1][1], captures[1][2])
                 ELSE Comment(l)

\* the loop of read_str over the physical lines
RECURSIVE classify_all(_)
classify_all(ls) ==
    IF ls = <<>> THEN <<>>
    ELSE <<classify(ls[1])>> \o classify_all(Tail(ls))

read_str(input) == classify_all(str_lines(input))

---------------------------------------------------------------------------
(* The operations on a Config; self is Config.lines.                       *)

\* Config::get: the first matching Entry scanning from the end
RECURSIVE rev_find_map(_, _, _)
rev_find_map(self, i, key) ==
    IF i = 0 THEN None
    ELSE IF IsEntry(self[i]) /\ self[i].key = key THEN Some(self[i].value)
    ELSE rev_find_map(self, i - 1, key)

\* get scanning from the front: the first occurrence instead of the last
RECURSIVE get_first(_, _)
get_first(self, key) ==
    IF self = <<>> THEN None
    ELSE IF IsEntry(self[1]) /\ self[1].key = key THEN Some(self[1].value)
    ELSE get_first(Tail(self), key)

get(self, key) == rev_find_map(self, Len(self), key)

\* a check that forgets the value
set_panics_key_only(key, value) ==
    \/ key = <<>>
    \/ ~all_alphanumeric(key)

\* the check at the head of Config::set
set_panics(key, value) ==
    \/ key = <<>>
    \/ ~all_alphanumeric(key)
    \/ value = <<>>
    \/ ~all_alphanumeric(value)

\* Config::set past its check: every Entry of the key takes the value, and
\* a new Entry is pushed when none did
RECURSIVE set_loop(_, _, _, _, _)
set_loop(self, i, key, value, n) ==
    IF i > Len(self) THEN [lines |-> self, n |-> n]
    ELSE IF IsEntry(self[i]) /\ self[i].key = key
         THEN set_loop([self EXCEPT ![i] = Entry(self[i].key, value)], i + 1, key, value, n + 1)
         ELSE set_loop(self, i + 1, key, value, n)

\* set that pushes a new Entry even when it updated some
set_always_push(self, key, value) ==
    Append(set_loop(self, 1, key, value, 0).lines, Entry(key, value))

set(self, key, value) ==
    LET r == set_loop(self, 1, key, value, 0)
    IN  IF r.n = 0 THEN Append(r.lines, Entry(key, value)) ELSE r.lines

\* Vec::swap_remove(i): the last element takes the place of the removed one
vec_swap_remove(self, i) ==
    IF i = Len(self) THEN SubSeq(self, 1, Len(self) - 1)
    ELSE [SubSeq(self, 1, Len(self) - 1) EXCEPT ![i] = self[Len(self)]]

\* Vec::remove(i)
vec_remove(self, i) == SubSeq(self, 1, i - 1) \o SubSeq(self, i + 1, Len(self))

\* Config::remove: while an Entry of the key is found, remove the first one
RECURSIVE remove_loop(_, _, _)
remove_loop(self, key, n) ==
    LET found == { i \in 1..Len(self) : IsEntry(self[i]) /\ self[i].key = key }
    IN  IF found = {} THEN [lines |-> self, n |-> n]
        ELSE LET i == CHOOSE j \in found : \A k \in found : j <= k
             IN  remove_loop(vec_remove(self, i), key, n + 1)

\* remove without its loop: only the first occurrence goes
remove_first_only(self, key) ==
    LET found == { i \in 1..Len(self) : IsEntry(self[i]) /\ self[i].key = key }
    IN  IF found = {} THEN [lines |-> self, n |-> 0]
        ELSE [lines |-> vec_remove(self, CHOOSE j \in found : \A k \in found : j <= k),
              n |-> 1]

remove(self, key) == remove_loop(self, key, 0)

\* len without its filter: every line counts
len_all_lines(self) == Len(self)

\* Config::len
len(self) == Cardinality({ i \in 1..Len(self) : IsEntry(self[i]) })

\* Config::is_empty
is_empty(self) == len(self) = 0

\* Config::keys_iter, collected
RECURSIVE keys_iter(_)
keys_iter(self) ==
    IF self = <<>> THEN <<>>
    ELSE (IF IsEntry(self[1]) THEN <<self[1].key>> ELSE <<>>) \o keys_iter(Tail(self))

\* Config::keys_values_iter, collected
RECURSIVE keys_values_iter(_)
keys_values_iter(self) ==
    IF self = <<>> THEN <<>>
    ELSE (IF IsEntry(self[1]) THEN << <<self[1].key, self[1].value>> >> ELSE <<>>)
         \o keys_values_iter(Tail(self))

\* the text print pushes for one Line
print_line(l) ==
    CASE l.tag = "Blank" -> <<>>
      [] l.tag = "Comment" -> l.text
      [] l.tag = "Entry" -> <<"[">> \o l.key \o <<":">> \o l.value \o <<"]">>

\* the buffer print fills, one text for each Line
RECURSIVE print_buff(_)
print_buff(self) ==
    IF self = <<>> THEN <<>>
    ELSE <<print_line(self[1])>> \o print_buff(Tail(self))

\* Config::print
print(self) == join(print_buff(self), <<CR, LF>>)

---------------------------------------------------------------------------
(* The inputs.                                                             *)

\* the pieces the input texts of the classifier runs are made of
Tokens ==
    { <<"[", "A", ":", "B", "]">>,
      <<"[", "B", ":", "C", "]">>,
      <<"[", "A", ":">>, <<"B", ":">>, <<"B", "]">>,
      <<"[">>, <<":">>, <<"]">>, <<"A">>, <<"_">>, <<Sup2>>,
      <<" ">>, <<CR>>, <<LF>>, <<CR, LF>> }

\* the concatenations of at most n tokens
RECURSIVE TokenTexts(_)
TokenTexts(n) ==
    IF n = 0 THEN { <<>> }
    ELSE LET P == TokenTexts(n - 1)
         IN  P \cup { p \o t : p \in P, t \in Tokens }

Texts == TokenTexts(MaxTokens)

\* the lines the input texts of the editing runs are made of
LineSamples ==
    { <<"[", "A", ":", "B", "]">>,
      <<"[", "A", ":", "C", "]">>,
      <<"[", "B", ":", "C", "]">>,
      <<"A", " ", "B">>,
      <<>> }

\* at most n of these lines, joined by CR LF
RECURSIVE LineTexts(_)
LineTexts(n) ==
    IF n <= 1 THEN { <<>> } \cup LineSamples
    ELSE LET P == LineTexts(n - 1)
         IN  P \cup { p \o <<CR, LF>> \o l : p \in P, l \in LineSamples }

DocTexts == LineTexts(MaxTextLines)

\* the keys given to get and remove
Keys == { <<"A">>, <<"B">> }
\* the keys and the values given to set
SetKeys == { <<"A">>, <<"B">>, <<>>, <<"A", CR>> }
SetValues == { <<"B">>, <<Sup2>>, <<>>, <<"_">> }

---------------------------------------------------------------------------
(* The state machine.                                                      *)

\* the record of a call: op, its arguments, the lines before it, its results
Call(op, key, value, pre, n, s, outcome) ==
    [op |-> op, key |-> key, value |-> value, pre |-> pre, n |-> n, s |-> s,
     outcome |-> outcome]

\* Config::new
Init ==
    /\ lines = <<>>
    /\ last = Call("new", <<>>, <<>>, <<>>, 0, <<>>, "ok")

\* a panic unwinds out of the caller: nothing is called after it
Running == last.outcome # "panic"

\* Config::read_str(text), text one of inputs: the other constructor, so it
\* is the first call
ReadStr(inputs) ==
    /\ last.op = "new"
    /\ \E text \in inputs :
         /\ lines' = read_str(text)
         /\ last' = Call("read_str", <<>>, <<>>, <<>>, 0, text, "ok")

Get(key) ==
    /\ Running
    /\ last' = Call("get", key, <<>>, <<>>, 0, get(lines, key), "ok")
    /\ UNCHANGED lines

Set(key, value) ==
    /\ Running
    /\ IF set_panics(key, value)
       THEN /\ last' = Call("set", key, value, lines, 0, <<>>, "panic")
            /\ UNCHANGED lines
       ELSE /\ Len(set(lines, key, value)) <= MaxLines
            /\ lines' = set(lines, key, value)
            /\ last' = Call("set", key, value, lines, 0, <<>>, "ok")

Remove(key) ==
    /\ Running
    /\ LET r == remove(lines, key)
       IN  /\ lines' = r.lines
           /\ last' = Call("remove", key, <<>>, lines, r.n, <<>>, "ok")

LenOp ==
    /\ Running
    /\ last' = Call("len", <<>>, <<>>, <<>>, len(lines), <<>>, "ok")
    /\ UNCHANGED lines

IsEmpty ==
    /\ Running
    /\ last' = Call("is_empty", <<>>, <<>>, <<>>, 0, <<is_empty(lines)>>, "ok")
    /\ UNCHANGED lines

KeysIter ==
    /\ Running
    /\ last' = Call("keys_iter", <<>>, <<>>, <<>>, 0, keys_iter(lines), "ok")
    /\ UNCHANGED lines

KeysValuesIter ==
    /\ Running
    /\ last' = Call("keys_values_iter", <<>>, <<>>, <<>>, 0, keys_values_iter(lines), "ok")
    /\ UNCHANGED lines

PrintOp ==
    /\ Running
    /\ last' = Call("print", <<>>, <<>>, <<>>, 0, print(lines), "ok")
    /\ UNCHANGED lines

\* a Config is edited and queried
Next ==
    \/ ReadStr(DocTexts)
    \/ \E key \in Keys : Get(key)
    \/ \E key \in SetKeys, value \in SetValues : Set(key, value)
    \/ \E key \in Keys : Remove(key)
    \/ LenOp
    \/ IsEmpty
    \/ KeysIter
    \/ KeysValuesIter
    \/ PrintOp

Spec == Init /\ [][Next]_vars

\* a text is parsed, looked up and printed back
NextRead ==
    \/ ReadStr(Texts)
    \/ \E key \in Keys : Get(key)
    \/ PrintOp

SpecRead == Init /\ [][NextRead]_vars

---------------------------------------------------------------------------
(* The properties.                                                         *)

\* the positions of the Entry lines of key k
EntryIdx(ls, k) == { i \in 1..Len(ls) : ls[i].tag = "Entry" /\ ls[i].key = k }

\* the largest member of a non-empty set of numbers
MaxOf(S) == CHOOSE j \in S : \A k \in S : k <= j

\* the Entry lines, in order
EntriesOf(ls) == SelectSeq(ls, LAMBDA l : l.tag = "Entry")

\* the lines that are not an Entry of key k, in order
OthersOf(ls, k) == SelectSeq(ls, LAMBDA l : ~(l.tag = "Entry" /\ l.key = k))

\* a key or value that set must refuse: empty, or with a non-alphanumeric character
InvalidArg(a) == a = <<>> \/ \E i \in 1..Len(a) : ~is_alphanumeric(a[i])

ValidSetDone == last.op = "set" /\ ~InvalidArg(last.key) /\ ~InvalidArg(last.value)

\* a text of lines without CR or LF, joined by CR LF
Canonical(t) ==
    \A i \in 1..Len(t) :
        /\ t[i] = LF => (i > 1 /\ t[i - 1] = CR)
        /\ t[i] = CR => (i < Len(t) /\ t[i + 1] = LF)

\* C1: for a text of Entry, Blank and Comment lines joined by CR LF,
\* print(read_str(text)) is the text.
C1_RoundTrip ==
    (last.op = "read_str" /\ Canonical(last.s)) => print(lines) = last.s

\* C2: after a valid set(k, v) every Entry of key k has value v; when one
\* existed before, the number of lines and len() are unchanged; when none did,
\* exactly the Entry (k, v) is appended at the end and len() grows by 1.
C2_SetUpdatesOrAppends ==
    ValidSetDone =>
        LET pre == last.pre
            k == last.key
            v == last.value
        IN  /\ last.outcome = "ok"
            /\ \A i \in EntryIdx(lines, k) : lines[i].value = v
            /\ EntryIdx(pre, k) # {} =>
                 /\ Len(lines) = Len(pre)
                 /\ len(lines) = len(pre)
                 /\ EntryIdx(lines, k) = EntryIdx(pre, k)
            /\ EntryIdx(pre, k) = {} =>
                 /\ lines = pre \o <<Entry(k, v)>>
                 /\ len(lines) = len(pre) + 1

\* C2 witness: a set that updated two Entry lines of its key
C2_Witness ==
    /\ ValidSetDone
    /\ Cardinality(EntryIdx(last.pre, last.key)) = 2
    /\ \E i \in EntryIdx(last.pre, last.key) : last.pre[i].value # last.value
    /\ Len(lines) = Len(last.pre)

\* C3: get(k) is the value of the last Entry of key k, and None, with no
\* error, when there is none; Blank and Comment lines play no part.
C3_GetLastWins ==
    last.op = "get" =>
        /\ last.outcome = "ok"
        /\ last.s = IF EntryIdx(lines, last.key) = {} THEN None
                    ELSE Some(lines[MaxOf(EntryIdx(lines, last.key))].value)

\* C3 witness: a get of a key with two Entry lines of different values,
\* among lines that are no Entry
C3_Witness ==
    /\ last.op = "get"
    /\ \E i, j \in EntryIdx(lines, last.key) :
         /\ i < j
         /\ lines[i].value # lines[j].value
         /\ last.s = Some(lines[j].value)
    /\ \E i \in 1..Len(lines) : lines[i].tag # "Entry"

\* C4 as stated: a set with an invalid key or value returns a reported,
\* recoverable InvalidArgument error, and the Config is unchanged.
C4_InvalidSetIsError ==
    (last.op = "set" /\ (InvalidArg(last.key) \/ InvalidArg(last.value))) =>
        (last.outcome = "InvalidArgument" /\ lines = last.pre)

\* C4 amended: a set with an invalid key or value panics, before any line is
\* changed, and a set with a valid key and value does not.
C4_InvalidSetPanics ==
    last.op = "set" =>
        IF InvalidArg(last.key) \/ InvalidArg(last.value)
        THEN last.outcome = "panic" /\ lines = last.pre
        ELSE last.outcome = "ok"

\* C4 witness: a refused set on a Config that has lines
C4_Witness ==
    /\ last.op = "set"
    /\ last.outcome = "panic"
    /\ ~InvalidArg(last.key)
    /\ InvalidArg(last.value)
    /\ lines # <<>>

\* C5: remove(k) returns the number n of Entry lines of key k there were;
\* after it get(k) is None and len() is n less.
C5_RemoveAll ==
    last.op = "remove" =>
        /\ last.n = Cardinality(EntryIdx(last.pre, last.key))
        /\ get(lines, last.key) = None
        /\ EntryIdx(lines, last.key) = {}
        /\ len(lines) = len(last.pre) - last.n
        /\ Len(lines) = Len(last.pre) - last.n

\* C5 witness: a remove of two lines that leaves others
C5_Witness ==
    /\ last.op = "remove"
    /\ last.n = 2
    /\ lines # <<>>

\* C6: parsing what print gives back yields the same lines.
C6_Reparse == read_str(print(lines)) = lines

\* C7: a valid set(k, v) or a remove(k) leaves the Blank lines, the Comment
\* lines and the Entry lines of other keys as they were and in their order;
\* a set on an existing key keeps every line at its index.
C7_Frame ==
    /\ (ValidSetDone \/ last.op = "remove") =>
         OthersOf(lines, last.key) = OthersOf(last.pre, last.key)
    /\ (ValidSetDone /\ EntryIdx(last.pre, last.key) # {}) =>
         /\ Len(lines) = Len(last.pre)
         /\ \A i \in 1..Len(lines) :
              IF i \in EntryIdx(last.pre, last.key)
              THEN lines[i].tag = "Entry" /\ lines[i].key = last.key
              ELSE lines[i] = last.pre[i]

\* C7 witness: a remove of an Entry that stood before a line that is no
\* Entry and before an Entry of another key
C7_Witness ==
    /\ last.op = "remove"
    /\ \E i \in EntryIdx(last.pre, last.key) :
         \E j, k \in (i + 1)..Len(last.pre) :
            /\ j # k
            /\ last.pre[j].tag # "Entry"
            /\ last.pre[k].tag = "Entry"
            /\ last.pre[k].key # last.key

\* the position of the first ':' of a text that has one
FirstColon(lt) == CHOOSE i \in 1..Len(lt) : lt[i] = ":" /\ \A j \in 1..(i - 1) : lt[j] # ":"

\* '[' KEY ':' VALUE ']': KEY, up to the first ':', of word characters, and
\* VALUE, up to the final ']', of word characters and ':', both non-empty
InGrammar(lt) ==
    /\ Len(lt) >= 5
    /\ lt[1] = "["
    /\ lt[Len(lt)] = "]"
    /\ \E i \in 1..Len(lt) : lt[i] = ":"
    /\ LET f == FirstColon(lt)
       IN  /\ f >= 3
           /\ f <= Len(lt) - 2
           /\ \A i \in 2..(f - 1) : is_word(lt[i])
           /\ \A i \in (f + 1)..(Len(lt) - 1) : is_word(lt[i]) \/ lt[i] = ":"

\* C8: a line of the grammar is an Entry whose key is the text between '[' and
\* the first ':' and whose value is all the text between that ':' and the
\* final ']'; any other line is no Entry: a Comment, or a Blank when it holds
\* only whitespace.
C8_FirstColonSplit ==
    last.op = "read_str" =>
        LET ls == str_lines(last.s)
        IN  /\ Len(lines) = Len(ls)
            /\ \A i \in 1..Len(ls) :
                 LET lt == trim_end(ls[i])
                 IN  IF InGrammar(lt)
                     THEN lines[i] = Entry(SubSeq(lt, 2, FirstColon(lt) - 1),
                                           SubSeq(lt, FirstColon(lt) + 1, Len(lt) - 1))
                     ELSE IF lt = <<>> THEN lines[i] = Blank
                     ELSE lines[i] = Comment(ls[i])

\* C8 witness: the text [A:B:B] was read as the Entry of key A and value B:B
C8_Witness ==
    /\ last.op = "read_str"
    /\ \E i \in 1..Len(lines) :
         lines[i] = Entry(<<"A">>, <<"B", ":", "B">>)
    /\ get(lines, <<"A">>) = Some(<<"B", ":", "B">>)

\* C9: len() is the number of Entry lines, and the number of items of
\* keys_iter() and of keys_values_iter(), which list the Entry lines in order,
\* duplicates included; is_empty() holds exactly when there is no Entry.
C9_LenCountsEntries ==
    LET es == EntriesOf(lines)
    IN  /\ len(lines) = Len(es)
        /\ keys_iter(lines) = [i \in 1..Len(es) |-> es[i].key]
        /\ keys_values_iter(lines) = [i \in 1..Len(es) |-> <<es[i].key, es[i].value>>]
        /\ Len(keys_iter(lines)) = len(lines)
        /\ Len(keys_values_iter(lines)) = len(lines)
        /\ is_empty(lines) <=> (es = <<>>)
        /\ last.op = "len" => last.n = Len(es)
        /\ last.op = "is_empty" => last.s = <<es = <<>>>>
        /\ last.op = "keys_iter" => last.s = keys_iter(lines)
        /\ last.op = "keys_values_iter" => last.s = keys_values_iter(lines)

\* C9 witness: len() returned 2 on a Config of a duplicated key and of lines
\* that are no Entry
C9_Witness ==
    /\ last.op = "len"
    /\ last.n = 2
    /\ Len(lines) > 2
    /\ \E k \in Keys : Cardinality(EntryIdx(lines, k)) = 2

\* C10: every Entry line has a non-empty key without ':' and ']' and a
\* non-empty value without ']', and the text print emits for it is classified
\* as the same Entry.
C10_GrammarClosure ==
    \A i \in 1..Len(lines) :
        lines[i].tag = "Entry" =>
            /\ lines[i].key # <<>>
            /\ \A j \in 1..Len(lines[i].key) : lines[i].key[j] \notin {":", "]"}
            /\ lines[i].value # <<>>
            /\ \A j \in 1..Len(lines[i].value) : lines[i].value[j] # "]"
            /\ classify(print_line(lines[i])) = lines[i]

====
